---- MODULE Spec2Model ----
(***************************************************************************)
(* Model of chunky-bevy: the ChunkManager registry (src/src/lib.rs), the   *)
(* Chunk / ChunkPos lifecycle hooks, the world <-> chunk coordinate        *)
(* mapping (computed in f32, as glam's Vec3 does) and the chunk_loader     *)
(* system.                                                                 *)
(***************************************************************************)
EXTENDS Integers, Sequences, FiniteSets, TLC

(***************************************************************************)
(* f32 arithmetic.  A finite f32 is [s |-> sign, m |-> mantissa, e |->     *)
(* exponent] with value s * m * 2^e, m in 2^23 .. 2^24-1, or m = 0 for     *)
(* zero.  Operations round to nearest, ties to even, as IEEE-754 does.     *)
(* A division by zero gives an infinity or NaN, which only floor and the   *)
(* cast to i32 ever see; subnormals are outside the inputs drawn below.    *)
(***************************************************************************)
P12 == 4096
P22 == 4194304
P23 == 8388608
P24 == 16777216
I32Max == 2147483647
I32Min == (-2147483647) - 1

F32Zero == [s |-> 1, m |-> 0, e |-> 0]
\* +-infinity, as a magnitude of 2^128, and NaN (which casts to 0).
F32Inf(s) == [s |-> s, m |-> P23, e |-> 105]
F32NaN == [s |-> 1, m |-> 0, e |-> 128]

\* Round the exact value s * (q + r2/(2*d2)) * 2^e, 0 <= r2 < 2*d2, q in
\* 2^23 .. 2^24-1, to the nearest f32 (ties to even).  r2 is twice the
\* remainder and d2 the divisor it is compared with.
F32Round(s, q, e, r2, d2) ==
    LET up == (r2 > d2) \/ (r2 = d2 /\ q % 2 = 1)
        q1 == IF up THEN q + 1 ELSE q
    IN  IF q1 = P24 THEN [s |-> s, m |-> P23, e |-> e + 1]
        ELSE [s |-> s, m |-> q1, e |-> e]

\* f32 * f32 (Vec3 * Vec3 is component-wise).  The 48-bit product of the
\* mantissas is computed in 12-bit limbs as hi * 2^24 + lo.
F32Mul(a, b) ==
    IF a.m = 0 \/ b.m = 0 THEN F32Zero
    ELSE LET a1 == a.m \div P12
             a0 == a.m % P12
             b1 == b.m \div P12
             b0 == b.m % P12
             mid == a1 * b0 + a0 * b1
             losum == a0 * b0 + (mid % P12) * P12
             lo == losum % P24
             hi == a1 * b1 + (mid \div P12) + (losum \div P24)
             big == hi >= P23
             q == IF big THEN hi ELSE 2 * hi + (lo \div P23)
             r == IF big THEN lo ELSE lo % P23
             half == IF big THEN P23 ELSE P22
         IN  F32Round(a.s * b.s, q, a.e + b.e + (IF big THEN 24 ELSE 23),
                      r, half)

\* Long division: n more quotient bits of r / d (r < d < 2^24), seven at a
\* time, appended to q: <<quotient, remainder>>.
RECURSIVE DivBits(_, _, _, _)
DivBits(r, d, n, q) ==
    IF n = 0 THEN <<q, r>>
    ELSE LET s == IF n >= 7 THEN 7 ELSE n
             x == r * (2 ^ s)
         IN  DivBits(x % d, d, n - s, q * (2 ^ s) + (x \div d))

\* f32 / f32 (Vec3 / Vec3 is component-wise): x / 0 is an infinity, 0 / 0
\* is NaN.
F32Div(a, b) ==
    IF b.m = 0 THEN (IF a.m = 0 THEN F32NaN ELSE F32Inf(a.s * b.s))
    ELSE IF a.m = 0 THEN F32Zero
    ELSE LET ge == a.m >= b.m
             k == IF ge THEN 23 ELSE 24
             qr == DivBits(IF ge THEN a.m - b.m ELSE a.m, b.m, k, IF ge THEN 1 ELSE 0)
         IN  F32Round(a.s * b.s, qr[1], a.e - b.e - k, 2 * qr[2], b.m)

\* i32 -> f32 (IVec3::as_vec3): exact below 2^24, rounded above.
RECURSIVE NormUp(_, _)
NormUp(m, e) ==
    IF m >= P23 THEN <<m, e>>
    ELSE IF m < P12 THEN NormUp(m * P12, e - 12)
    ELSE IF m < P22 \div 4 THEN NormUp(m * 8, e - 3)
    ELSE NormUp(2 * m, e - 1)

RECURSIVE BitsOver24(_)
BitsOver24(n) == IF n < P24 THEN 0 ELSE 1 + BitsOver24(n \div 2)

AsF32(n) ==
    IF n = 0 THEN F32Zero
    ELSE IF n = I32Min THEN [s |-> -1, m |-> P23, e |-> 8]
    ELSE LET s == IF n < 0 THEN -1 ELSE 1
             a == IF n < 0 THEN -n ELSE n
             k == BitsOver24(a)
         IN  IF k = 0
             THEN LET me == NormUp(a, 0) IN [s |-> s, m |-> me[1], e |-> me[2]]
             ELSE F32Round(s, a \div (2 ^ k), k, 2 * (a % (2 ^ k)), 2 ^ k)

\* f32::floor: the largest integer-valued f32 not above a.
F32Floor(a) ==
    IF a.m = 0 \/ a.e >= 0 THEN a
    ELSE LET k == -a.e
             int == IF k >= 24 THEN 0 ELSE a.m \div (2 ^ k)
             frac == IF k >= 24 THEN TRUE ELSE a.m % (2 ^ k) # 0
         IN  IF a.s = 1 THEN AsF32(int)
             ELSE AsF32(-(int + (IF frac THEN 1 ELSE 0)))

\* f32 -> i32 (Vec3::as_ivec3, Rust `as`): truncates toward zero, saturates.
AsI32(a) ==
    IF a.m = 0 THEN 0
    ELSE IF a.e >= 8 THEN (IF a.s = 1 THEN I32Max ELSE I32Min)
    ELSE IF a.e >= 0 THEN a.s * (a.m * (2 ^ a.e))
    ELSE IF -a.e >= 24 THEN 0
    ELSE a.s * (a.m \div (2 ^ (-a.e)))

\* Vec3 / IVec3 are triples.
Vec3Of(x, y, z) == <<AsF32(x), AsF32(y), AsF32(z)>>


(***************************************************************************)
(* Bounds and input sets.                                                  *)
(***************************************************************************)
MaxEntities == 3
MaxObservers == 2
MaxCoord == 3

\* Option<Entity>
None == <<"None">>
Some(e) == <<"Some", e>>

\* ChunkyPlugin::THREE_DIMETION: vec3(10.0, 10.0, 10.0)
THREE_DIMETION == Vec3Of(10, 10, 10)
\* 1.7f32 = 14260634 * 2^-23
F1p7 == [s |-> 1, m |-> 14260634, e |-> -23]
\* 0.1f32 = 13421773 * 2^-27
F0p1 == [s |-> 1, m |-> 13421773, e |-> -27]

Entities == 1 .. MaxEntities

(***************************************************************************)
(* ChunkManager { chunk_size: Vec3, chunks: HashMap<IVec3, Entity> }       *)
(***************************************************************************)
EmptyMap == [k \in {} |-> 0]

\* HashMap::insert / get / remove / contains_key on a function.
MapInsert(map, k, v) == [x \in (DOMAIN map) \cup {k} |-> IF x = k THEN v ELSE map[x]]
MapRemove(map, k) == [x \in (DOMAIN map) \ {k} |-> map[x]]
MapGet(map, k) == IF k \in DOMAIN map THEN Some(map[k]) ELSE None

new(size) == [chunk_size |-> size, chunks |-> EmptyMap]

get_size(self) == self.chunk_size

\* The methods taking &mut self yield the manager after the call and the
\* value returned.
\* Variant: an occupied coordinate keeps its occupant (entry().or_insert).
insert_keep_first(self, pos, id) ==
    [self |-> [self EXCEPT !.chunks = IF pos \in DOMAIN @ THEN @ ELSE MapInsert(@, pos, id)],
     ret |-> MapGet(self.chunks, pos)]

insert(self, pos, id) ==
    [self |-> [self EXCEPT !.chunks = MapInsert(@, pos, id)],
     ret |-> MapGet(self.chunks, pos)]

\* Variant: empties the whole map (HashMap::clear).
remove_clear(self, pos) ==
    [self |-> [self EXCEPT !.chunks = EmptyMap], ret |-> MapGet(self.chunks, pos)]

\* Variant: looks the occupant up without removing it.
remove_lookup_only(self, pos) ==
    [self |-> self, ret |-> MapGet(self.chunks, pos)]

\* Variant: removes the occupant but reports nothing.
remove_returns_none(self, pos) ==
    [self |-> [self EXCEPT !.chunks = MapRemove(@, pos)], ret |-> None]

remove(self, pos) ==
    [self |-> [self EXCEPT !.chunks = MapRemove(@, pos)],
     ret |-> MapGet(self.chunks, pos)]

\* (*pos / self.chunk_size).floor().as_ivec3()
get_chunk_pos(self, pos) ==
    [a \in 1 .. 3 |-> AsI32(F32Floor(F32Div(pos[a], self.chunk_size[a])))]

get_chunk(self, chunk_pos) == MapGet(self.chunks, chunk_pos)

get_chunk_form_pos(self, pos) == get_chunk(self, get_chunk_pos(self, pos))

is_loaded(self, chunk_pos) == chunk_pos \in DOMAIN self.chunks


(***************************************************************************)
(* The world: chunk entities (Chunk + ChunkPos + Transform), the           *)
(* ChunkManager resource, and the warnings written with warn!.             *)
(* world.chunk_pos maps every live chunk entity to its ChunkPos.           *)
(***************************************************************************)
\* Variant: the translation is the chunk coordinate itself, not scaled.
on_add_chunk_pos_unscaled(world, entity) ==
    LET chunk_pos == world.chunk_pos[entity]
        translation == [a \in 1 .. 3 |-> AsF32(chunk_pos[a])]
    IN  [world EXCEPT !.translation = MapInsert(@, entity, translation)]

\* ChunkPos on_add hook: translation = chunk_pos.as_vec3() * chunk_size
on_add_chunk_pos(world, entity) ==
    LET chunk_pos == world.chunk_pos[entity]
        chunk_size == world.cm.chunk_size
        translation == [a \in 1 .. 3 |-> F32Mul(AsF32(chunk_pos[a]), chunk_size[a])]
    IN  [world EXCEPT !.translation = MapInsert(@, entity, translation)]

\* Variant: no occupancy check, the new chunk overwrites the entry.
on_add_chunk_overwrite(world, entity) ==
    LET chunk_pos == world.chunk_pos[entity]
    IN  IF is_loaded(world.cm, chunk_pos)
        THEN [world EXCEPT !.warnings = @ + 1,
                           !.cm = insert(@, chunk_pos, entity).self]
        ELSE [world EXCEPT !.cm = insert(@, chunk_pos, entity).self]

\* Chunk on_add hook
on_add_chunk(world, entity) ==
    LET chunk_pos == world.chunk_pos[entity]
    IN  IF is_loaded(world.cm, chunk_pos)
        THEN [world EXCEPT !.warnings = @ + 1]
        ELSE [world EXCEPT !.cm = insert(@, chunk_pos, entity).self]

\* Variant: the hook leaves the registry alone.
on_remove_chunk_noop(world, entity) == world

\* Chunk on_remove hook
on_remove_chunk(world, entity) ==
    LET chunk_pos == world.chunk_pos[entity]
    IN  [world EXCEPT !.cm = remove(@, chunk_pos).self]

\* commands.spawn((Chunk, ChunkPos(pos))) applied to the world: a fresh
\* entity gets the components, then the on_add hooks run.
spawn(world, pos) ==
    LET entity == world.next_entity
        w1 == [world EXCEPT !.chunk_pos = MapInsert(@, entity, pos),
                            !.next_entity = @ + 1]
    IN  on_add_chunk(on_add_chunk_pos(w1, entity), entity)

\* Despawning a chunk entity: the on_remove hook runs, then the components go.
despawn(world, entity) ==
    LET w1 == on_remove_chunk(world, entity)
    IN  [w1 EXCEPT !.chunk_pos = MapRemove(@, entity),
                   !.translation = MapRemove(@, entity)]

\* Variant: every spawn first despawns the oldest live chunk (an eviction).
RECURSIVE apply_commands_evicting(_, _)
apply_commands_evicting(world, queue) ==
    IF queue = <<>> THEN world
    ELSE LET live == DOMAIN world.chunk_pos
             w0 == IF live = {} THEN world
                   ELSE despawn(world, CHOOSE e \in live : \A f \in live : e <= f)
         IN  apply_commands_evicting(spawn(w0, Head(queue)), Tail(queue))

\* Applying a queue of deferred spawn commands in order.  Each spawn is
\* completed (its entity allocated, its hooks run) before the next command
\* is looked at.
RECURSIVE apply_commands(_, _)
apply_commands(world, queue) ==
    IF queue = <<>> THEN world
    ELSE LET spawned == spawn(world, Head(queue))
         IN  IF spawned.next_entity > world.next_entity
             THEN apply_commands(spawned, Tail(queue))
             ELSE spawned

(***************************************************************************)
(* chunk_loader: for every (ChunkLoader, GlobalTransform), in query order, *)
(* the spawn commands it queues.                                           *)
(***************************************************************************)
\* Variant: the half-open range lo..hi.
RangeExclusive(lo, hi) == [i \in 1 .. (hi - lo) |-> lo + i - 1]

\* lo..=hi as a sequence (empty when hi < lo)
RangeInclusive(lo, hi) == [i \in 1 .. (hi - lo + 1) |-> lo + i - 1]

RECURSIVE Flatten(_)
Flatten(seqs) == IF seqs = <<>> THEN <<>> ELSE Head(seqs) \o Flatten(Tail(seqs))

IVec3Add(a, b) == <<a[1] + b[1], a[2] + b[2], a[3] + b[3]>>

\* Variant: every coordinate of the box is requested, loaded or not.
loader_requests_unchecked(chunk_manager_res, loading_radius, translation) ==
    LET in_chunk == get_chunk_pos(chunk_manager_res, translation)
        xs == RangeInclusive(-loading_radius[1], loading_radius[1])
        ys == RangeInclusive(-loading_radius[2], loading_radius[2])
        zs == RangeInclusive(-loading_radius[3], loading_radius[3])
        forz(x, y) == [k \in DOMAIN zs |-> IVec3Add(in_chunk, <<x, y, zs[k]>>)]
        fory(x) == Flatten([j \in DOMAIN ys |-> forz(x, ys[j])])
    IN  Flatten([i \in DOMAIN xs |-> fory(xs[i])])

loader_requests(chunk_manager_res, loading_radius, translation) ==
    LET in_chunk == get_chunk_pos(chunk_manager_res, translation)
        xs == RangeInclusive(-loading_radius[1], loading_radius[1])
        ys == RangeInclusive(-loading_radius[2], loading_radius[2])
        zs == RangeInclusive(-loading_radius[3], loading_radius[3])
        forz(x, y) ==
            LET targets == [k \in DOMAIN zs |-> IVec3Add(in_chunk, <<x, y, zs[k]>>)]
            IN  SelectSeq(targets, LAMBDA target_chunk :
                              ~is_loaded(chunk_manager_res, target_chunk))
        fory(x) == Flatten([j \in DOMAIN ys |-> forz(x, ys[j])])
    IN  Flatten([i \in DOMAIN xs |-> fory(xs[i])])

\* Variant: only the first observer of the query is served.
chunk_loader_first_only(chunks_query, chunk_manager_res) ==
    IF chunks_query = <<>> THEN <<>>
    ELSE loader_requests(chunk_manager_res, chunks_query[1].radius,
                         chunks_query[1].translation)

\* Variant: a coordinate requested earlier in the run counts as loaded.
RECURSIVE chunk_loader_eager(_, _)
chunk_loader_eager(chunks_query, chunk_manager_res) ==
    IF chunks_query = <<>> THEN <<>>
    ELSE LET first == loader_requests(chunk_manager_res, Head(chunks_query).radius,
                                      Head(chunks_query).translation)
             pending == {first[i] : i \in DOMAIN first}
             seen == [chunk_manager_res EXCEPT
                         !.chunks = [c \in (DOMAIN @) \cup pending |->
                                        IF c \in DOMAIN @ THEN @[c] ELSE 0]]
         IN  first \o chunk_loader_eager(Tail(chunks_query), seen)

chunk_loader(chunks_query, chunk_manager_res) ==
    Flatten([i \in DOMAIN chunks_query |->
                loader_requests(chunk_manager_res, chunks_query[i].radius,
                                chunks_query[i].translation)])


(***************************************************************************)
(* helpers: the spawn commands spawn_chunks_rect and                       *)
(* spawn_chunks_rect_from_world_pos queue, in order.                       *)
(***************************************************************************)
\* Variant: the corners are taken as given, chunk_pos_0 as the lower one.
spawn_chunks_rect_unordered(chunk_pos_0, chunk_pos_1) ==
    LET xs == RangeInclusive(chunk_pos_0[1], chunk_pos_1[1])
        ys == RangeInclusive(chunk_pos_0[2], chunk_pos_1[2])
        zs == RangeInclusive(chunk_pos_0[3], chunk_pos_1[3])
        forz(x, y) == [k \in DOMAIN zs |-> <<x, y, zs[k]>>]
        fory(x) == Flatten([j \in DOMAIN ys |-> forz(x, ys[j])])
    IN  Flatten([i \in DOMAIN xs |-> fory(xs[i])])

spawn_chunks_rect(chunk_pos_0, chunk_pos_1) ==
    LET small(a) == IF chunk_pos_0[a] > chunk_pos_1[a] THEN chunk_pos_1[a]
                    ELSE chunk_pos_0[a]
        big(a) == IF chunk_pos_0[a] > chunk_pos_1[a] THEN chunk_pos_0[a]
                  ELSE chunk_pos_1[a]
        xs == RangeInclusive(small(1), big(1))
        ys == RangeInclusive(small(2), big(2))
        zs == RangeInclusive(small(3), big(3))
        forz(x, y) == [k \in DOMAIN zs |-> <<x, y, zs[k]>>]
        fory(x) == Flatten([j \in DOMAIN ys |-> forz(x, ys[j])])
    IN  Flatten([i \in DOMAIN xs |-> fory(xs[i])])

\* chunk_pos_N.floor().as_ivec3(), then spawn_chunks_rect
spawn_chunks_rect_from_world_pos(chunk_pos_0, chunk_pos_1) ==
    spawn_chunks_rect([a \in 1 .. 3 |-> AsI32(F32Floor(chunk_pos_0[a]))],
                      [a \in 1 .. 3 |-> AsI32(F32Floor(chunk_pos_1[a]))])


(***************************************************************************)
(* State.                                                                  *)
(***************************************************************************)
VARIABLES
    chunk_manager,  \* the ChunkManager resource
    chunk_pos,      \* live chunk entity -> its ChunkPos
    translation,    \* live chunk entity -> its Transform translation
    warnings,       \* number of warn! lines written by on_add_chunk
    next_entity,    \* the next fresh Entity
    observers,      \* the (ChunkLoader, GlobalTransform) query, in iteration order
    commands,       \* spawn commands queued by chunk_loader, not yet applied
    pass,           \* history: the latest run of chunk_loader
    disturbed,      \* history: an observer changed or a chunk was despawned since that run
    call,           \* history: the latest ChunkManager method called directly
    prev_call,      \* history: the call before that one
    ret,            \* what that call returned
    lastOp,         \* history: per coordinate, the latest insert or remove call
    q,              \* the latest get_chunk_pos query and its result
    t,              \* the latest on_add_chunk_pos computation
    built           \* history: how the ChunkManager was constructed, and the size given

vars == <<chunk_manager, chunk_pos, translation, warnings, next_entity, observers,
          commands, pass, disturbed, call, prev_call, ret, lastOp, q, t, built>>

worldVars == <<chunk_pos, translation, warnings, next_entity, observers, commands,
               pass, disturbed>>
callVars == <<call, prev_call, ret, lastOp>>
mapperVars == <<q, t, built>>

\* Input sets
RegCoords == {<<0, 0, 0>>, <<1, 0, 2>>, <<-1, -1, -1>>}
UserCoords == {<<0, 0, 0>>}
ObserverPositions == {Vec3Of(0, 0, 0), Vec3Of(-1, 5, -1)}
Radii == {<<0, 0, 0>>, <<1, 0, 1>>}

World ==
    [cm |-> chunk_manager, chunk_pos |-> chunk_pos, translation |-> translation,
     warnings |-> warnings, next_entity |-> next_entity]

SetWorld(w) ==
    /\ chunk_manager' = w.cm
    /\ chunk_pos' = w.chunk_pos
    /\ translation' = w.translation
    /\ warnings' = w.warnings
    /\ next_entity' = w.next_entity

NoPass == [ran |-> FALSE, issued |-> FALSE, after_settled |-> FALSE]

\* Everything but the ChunkManager resource: an empty world, no call made.
InitRest ==
    /\ chunk_pos = EmptyMap
    /\ translation = EmptyMap
    /\ warnings = 0
    /\ next_entity = 1
    /\ observers = <<>>
    /\ commands = <<>>
    /\ pass = NoPass
    /\ disturbed = FALSE
    /\ call = [op |-> "none", pos |-> <<0, 0, 0>>, id |-> 0]
    /\ prev_call = [op |-> "none", pos |-> <<0, 0, 0>>, id |-> 0]
    /\ ret = None
    /\ lastOp = [c \in RegCoords |-> [op |-> "none", id |-> 0]]
    /\ q = [set |-> FALSE, pos |-> Vec3Of(0, 0, 0), chunk |-> <<0, 0, 0>>]
    /\ t = [set |-> FALSE, coord |-> <<0, 0, 0>>, origin |-> Vec3Of(0, 0, 0)]

\* The app once ChunkManager::new(size) has been inserted as a resource.
InitWith(size) ==
    /\ chunk_manager = new(size)
    /\ built = [how |-> "new", size |-> size]
    /\ InitRest

(***************************************************************************)
(* Direct calls of the ChunkManager methods on a registry that starts      *)
(* empty (ChunkManager::new).                                              *)
(***************************************************************************)
Insert(pos, id) ==
    LET r == insert(chunk_manager, pos, id)
    IN  /\ chunk_manager' = r.self
        /\ ret' = r.ret
        /\ call' = [op |-> "insert", pos |-> pos, id |-> id]
        /\ prev_call' = call
        /\ lastOp' = [lastOp EXCEPT ![pos] = [op |-> "insert", id |-> id]]
        /\ UNCHANGED <<worldVars, mapperVars>>

Remove(pos) ==
    LET r == remove(chunk_manager, pos)
    IN  /\ chunk_manager' = r.self
        /\ ret' = r.ret
        /\ call' = [op |-> "remove", pos |-> pos, id |-> 0]
        /\ prev_call' = call
        /\ lastOp' = [lastOp EXCEPT ![pos] = [op |-> "remove", id |-> 0]]
        /\ UNCHANGED <<worldVars, mapperVars>>

IsLoaded(pos) ==
    /\ ret' = <<"Bool", is_loaded(chunk_manager, pos)>>
    /\ call' = [op |-> "is_loaded", pos |-> pos, id |-> 0]
    /\ prev_call' = call
    /\ UNCHANGED <<chunk_manager, lastOp, worldVars, mapperVars>>

GetChunk(pos) ==
    /\ ret' = get_chunk(chunk_manager, pos)
    /\ call' = [op |-> "get_chunk", pos |-> pos, id |-> 0]
    /\ prev_call' = call
    /\ UNCHANGED <<chunk_manager, lastOp, worldVars, mapperVars>>

InitRegistry == InitWith(THREE_DIMETION)

NextRegistry ==
    \/ \E pos \in RegCoords, id \in Entities : Insert(pos, id)
    \/ \E pos \in RegCoords : Remove(pos)
    \/ \E pos \in RegCoords : IsLoaded(pos)
    \/ \E pos \in RegCoords : GetChunk(pos)

SpecRegistry == InitRegistry /\ [][NextRegistry]_vars

(***************************************************************************)
(* The running app: chunk entities are spawned and despawned, observers    *)
(* are added and moved, chunk_loader runs and its commands are applied.    *)
(* The ChunkManager is touched by the hooks only.                          *)
(***************************************************************************)
Settled == pass.ran /\ ~disturbed /\ commands = <<>>

SpawnChunk(pos) ==
    /\ next_entity <= MaxEntities
    /\ SetWorld(spawn(World, pos))
    /\ UNCHANGED <<observers, commands, pass, disturbed, callVars, mapperVars>>

DespawnChunk(entity) ==
    /\ entity \in DOMAIN chunk_pos
    /\ SetWorld(despawn(World, entity))
    /\ disturbed' = TRUE
    /\ UNCHANGED <<observers, commands, pass, callVars, mapperVars>>

AddObserver(position, radius) ==
    /\ Len(observers) < MaxObservers
    /\ observers' = Append(observers, [translation |-> position, radius |-> radius])
    /\ disturbed' = TRUE
    /\ UNCHANGED <<chunk_manager, chunk_pos, translation, warnings, next_entity,
                   commands, pass, callVars, mapperVars>>

MoveObserver(i, position) ==
    /\ i \in DOMAIN observers
    /\ observers[i].translation # position
    /\ observers' = [observers EXCEPT ![i].translation = position]
    /\ disturbed' = TRUE
    /\ UNCHANGED <<chunk_manager, chunk_pos, translation, warnings, next_entity,
                   commands, pass, callVars, mapperVars>>

\* One run of the chunk_loader system.  Its Commands of the previous run
\* have been applied by then.
LoaderPass ==
    /\ commands = <<>>
    /\ UNCHANGED <<chunk_manager, chunk_pos, translation, warnings, next_entity,
                   observers, callVars, mapperVars>>
    /\ disturbed' = FALSE
    /\ commands' = chunk_loader(observers, chunk_manager)
    /\ pass' = [ran |-> TRUE,
                issued |-> commands' # <<>>,
                after_settled |-> Settled /\ (pass.issued \/ pass.after_settled)]

\* The sync point that applies the queued commands of chunk_loader.
ApplyCommands ==
    /\ commands # <<>>
    /\ next_entity + Len(commands) - 1 <= MaxEntities
    /\ SetWorld(apply_commands(World, commands))
    /\ commands' = <<>>
    /\ UNCHANGED <<observers, pass, disturbed, callVars, mapperVars>>

Init == InitWith(THREE_DIMETION)

Next ==
    \/ \E pos \in UserCoords : SpawnChunk(pos)
    \/ \E entity \in Entities : DespawnChunk(entity)
    \/ \E position \in ObserverPositions, radius \in Radii : AddObserver(position, radius)
    \/ \E i \in 1 .. MaxObservers, position \in ObserverPositions : MoveObserver(i, position)
    \/ LoaderPass
    \/ ApplyCommands

Spec == Init /\ [][Next]_vars


(***************************************************************************)
(* The coordinate mapping on its own: get_chunk_pos on world positions,    *)
(* the origin on_add_chunk_pos gives a chunk, and get_chunk_pos of that    *)
(* origin, for several chunk sizes.                                        *)
(***************************************************************************)
MapperSizes ==
    {THREE_DIMETION, <<F1p7, F1p7, F1p7>>, <<F0p1, AsF32(3), AsF32(16)>>}
MapperPositions ==
    {Vec3Of(-1, -1, -1), Vec3Of(-10, 0, 0), Vec3Of(15, 5, 23), Vec3Of(0, 0, 0),
     Vec3Of(10, -11, 9), <<F1p7, F0p1, AsF32(-20)>>}
MapperCoords ==
    {<<x, y, z>> : x \in (-MaxCoord) .. MaxCoord, y \in {0, 1}, z \in {-MaxCoord, 2}}

GetChunkPos(pos) ==
    /\ q' = [set |-> TRUE, pos |-> pos, chunk |-> get_chunk_pos(chunk_manager, pos)]
    /\ UNCHANGED <<chunk_manager, worldVars, callVars, t, built>>

\* The ChunkPos hook on a chunk entity with ChunkPos(coord).
OnAddChunkPos(coord) ==
    LET w1 == [World EXCEPT !.chunk_pos = MapInsert(@, next_entity, coord)]
        w2 == on_add_chunk_pos(w1, next_entity)
    IN  /\ t' = [set |-> TRUE, coord |-> coord, origin |-> w2.translation[next_entity]]
        /\ UNCHANGED <<chunk_manager, worldVars, callVars, q, built>>

GetChunkPosOfOrigin ==
    /\ t.set
    /\ GetChunkPos(t.origin)

InitMapper == \E size \in MapperSizes : InitWith(size)

NextMapper ==
    \/ \E pos \in MapperPositions : GetChunkPos(pos)
    \/ \E coord \in MapperCoords : OnAddChunkPos(coord)
    \/ GetChunkPosOfOrigin

SpecMapper == InitMapper /\ [][NextMapper]_vars


(***************************************************************************)
(* The lifetime of one ChunkManager: it is constructed (ChunkManager::new, *)
(* the derived Default, or ChunkyPlugin::build), then its methods are      *)
(* called.                                                                 *)
(***************************************************************************)
ManagerSizes == {THREE_DIMETION, Vec3Of(0, 10, 10), Vec3Of(10, -10, 10)}
ManagerCoords == {<<0, 0, 0>>, <<1, 0, 2>>}
ManagerPositions == {Vec3Of(15, 5, 23)}
\* The plugins a user can make: ChunkyPlugin's chunk_size field is private,
\* THREE_DIMETION and default() are its only constructors.
Plugins == {[chunk_size |-> THREE_DIMETION]}

\* Stands for the resource before it is constructed.
NoManager == [chunk_size |-> <<>>, chunks |-> EmptyMap]

\* #[derive(Default)]: Vec3::ZERO and an empty map.
default_manager == [chunk_size |-> Vec3Of(0, 0, 0), chunks |-> EmptyMap]

\* ChunkyPlugin::build: app.insert_resource(ChunkManager::new(self.chunk_size))
build(self) == new(self.chunk_size)

IsBuilt == built.how # "none"

New(size) ==
    /\ ~IsBuilt
    /\ chunk_manager' = new(size)
    /\ built' = [how |-> "new", size |-> size]
    /\ UNCHANGED <<worldVars, callVars, q, t>>

Default ==
    /\ ~IsBuilt
    /\ chunk_manager' = default_manager
    /\ built' = [how |-> "default", size |-> Vec3Of(0, 0, 0)]
    /\ UNCHANGED <<worldVars, callVars, q, t>>

Build(plugin) ==
    /\ ~IsBuilt
    /\ chunk_manager' = build(plugin)
    /\ built' = [how |-> "plugin", size |-> plugin.chunk_size]
    /\ UNCHANGED <<worldVars, callVars, q, t>>

GetSize ==
    /\ ret' = <<"Vec3", get_size(chunk_manager)>>
    /\ call' = [op |-> "get_size", pos |-> <<0, 0, 0>>, id |-> 0]
    /\ prev_call' = call
    /\ UNCHANGED <<chunk_manager, lastOp, worldVars, mapperVars>>

\* call.pos: the chunk coordinate the world position is looked up at.
GetChunkFormPos(pos) ==
    /\ ret' = get_chunk_form_pos(chunk_manager, pos)
    /\ call' = [op |-> "get_chunk_form_pos",
                pos |-> get_chunk_pos(chunk_manager, pos), id |-> 0]
    /\ prev_call' = call
    /\ UNCHANGED <<chunk_manager, lastOp, worldVars, mapperVars>>

InitManager ==
    /\ chunk_manager = NoManager
    /\ built = [how |-> "none", size |-> <<>>]
    /\ InitRest

NextManager ==
    \/ \E size \in ManagerSizes : New(size)
    \/ Default
    \/ \E plugin \in Plugins : Build(plugin)
    \/ IsBuilt /\ \E pos \in ManagerCoords, id \in Entities : Insert(pos, id)
    \/ IsBuilt /\ \E pos \in ManagerCoords : Remove(pos)
    \/ IsBuilt /\ \E pos \in ManagerCoords : IsLoaded(pos)
    \/ IsBuilt /\ \E pos \in ManagerCoords : GetChunk(pos)
    \/ IsBuilt /\ GetSize
    \/ IsBuilt /\ \E pos \in ManagerPositions : GetChunkPos(pos)
    \/ IsBuilt /\ \E pos \in ManagerPositions : GetChunkFormPos(pos)

SpecManager == InitManager /\ [][NextManager]_vars


(***************************************************************************)
(* Bulk spawning: a setup system calls the helpers (or spawns a chunk      *)
(* itself) and its commands are applied.                                   *)
(***************************************************************************)
HelperSizes == {THREE_DIMETION, <<F1p7, F1p7, F1p7>>}
HelperCorners == {<<0, 0, 0>>, <<5, 5, 5>>, <<1, 0, 2>>, <<-1, 0, 2>>}
HelperWorldPositions == {Vec3Of(0, 0, 0), Vec3Of(12, 0, 0), Vec3Of(-1, -1, -1)}

\* A system calling spawn_chunks_rect; nothing is queued from before.
SpawnChunksRect(chunk_pos_0, chunk_pos_1) ==
    /\ commands = <<>>
    /\ commands' = spawn_chunks_rect(chunk_pos_0, chunk_pos_1)
    /\ call' = [op |-> "spawn_chunks_rect", pos |-> <<chunk_pos_0, chunk_pos_1>>,
                id |-> 0]
    /\ UNCHANGED <<chunk_manager, chunk_pos, translation, warnings, next_entity,
                   observers, pass, disturbed, prev_call, ret, lastOp, mapperVars>>

SpawnChunksRectFromWorldPos(chunk_pos_0, chunk_pos_1) ==
    /\ commands = <<>>
    /\ commands' = spawn_chunks_rect_from_world_pos(chunk_pos_0, chunk_pos_1)
    /\ call' = [op |-> "spawn_chunks_rect_from_world_pos",
                pos |-> <<chunk_pos_0, chunk_pos_1>>, id |-> 0]
    /\ UNCHANGED <<chunk_manager, chunk_pos, translation, warnings, next_entity,
                   observers, pass, disturbed, prev_call, ret, lastOp, mapperVars>>

InitHelpers == \E size \in HelperSizes : InitWith(size)

NextHelpers ==
    \/ \E p0 \in HelperCorners, p1 \in HelperCorners : SpawnChunksRect(p0, p1)
    \/ \E p0 \in HelperWorldPositions, p1 \in HelperWorldPositions :
          SpawnChunksRectFromWorldPos(p0, p1)
    \/ \E pos \in HelperCorners : SpawnChunk(pos)
    \/ ApplyCommands

SpecHelpers == InitHelpers /\ [][NextHelpers]_vars


(***************************************************************************)
(* Properties.                                                             *)
(***************************************************************************)
Abs(n) == IF n < 0 THEN -n ELSE n
Range(f) == {f[x] : x \in DOMAIN f}

\* C1: after any sequence of insert and remove calls on a registry that
\* starts empty, is_loaded(c) holds exactly when the latest insert-or-remove
\* call on c was an insert (never touched: not loaded).
C1_RegistryUniqueness ==
    \A c \in RegCoords : is_loaded(chunk_manager, c) <=> lastOp[c].op = "insert"

C1_Witness ==
    /\ call.op = "remove"
    /\ prev_call.op = "insert"
    /\ prev_call.pos = call.pos
    /\ ~is_loaded(chunk_manager, call.pos)
    /\ \E c \in RegCoords : is_loaded(chunk_manager, c)

\* C2: under chunk creations and destructions alone, a coordinate is a key
\* of the registry exactly when some live chunk entity has that ChunkPos.
C2_KeyIffLiveChunk ==
    \A c \in (DOMAIN chunk_manager.chunks) \cup Range(chunk_pos) :
        is_loaded(chunk_manager, c) <=> \E e \in DOMAIN chunk_pos : chunk_pos[e] = c

\* C3: the commands queued by one run of chunk_loader hold at most one
\* spawn request per coordinate.
C3_NoDuplicateRequests ==
    \A i, j \in DOMAIN commands : commands[i] = commands[j] => i = j

\* A chunk entity with ChunkPos(pos) comes to life in this step: spawned
\* directly, or by the one queued command of chunk_loader.
SpawnsAt(pos) == SpawnChunk(pos) \/ (ApplyCommands /\ commands = <<pos>>)

SpawnCoords == UserCoords \cup Range(commands)

C5_ConflictDetection ==
    [][\A pos \in RegCoords, id \in Entities :
          Insert(pos, id) =>
              /\ lastOp[pos].op = "insert" => ret' = Some(lastOp[pos].id)
              /\ lastOp[pos].op # "insert" => ret' = None
              /\ get_chunk(chunk_manager', pos) = Some(id)]_vars

C5_Witness ==
    /\ call.op = "insert"
    /\ prev_call.op = "insert"
    /\ prev_call.pos = call.pos
    /\ prev_call.id # call.id
    /\ ret = Some(prev_call.id)
    /\ get_chunk(chunk_manager, call.pos) = Some(call.id)

\* C6: remove(c) on an unoccupied coordinate returns None and leaves the
\* registry as it was; on an occupied coordinate it returns the occupant and
\* frees the coordinate, so a remove(c) right after a remove(c) returns None.
C6_IdempotentRemoval ==
    [][\A pos \in RegCoords :
          Remove(pos) =>
              /\ ~is_loaded(chunk_manager, pos) =>
                    (ret' = None /\ chunk_manager' = chunk_manager)
              /\ is_loaded(chunk_manager, pos) =>
                    (ret' = Some(chunk_manager.chunks[pos])
                        /\ ~is_loaded(chunk_manager', pos))
              /\ (call.op = "remove" /\ call.pos = pos) => ret' = None]_vars

C6_Witness ==
    /\ call.op = "remove"
    /\ prev_call.op = "remove"
    /\ prev_call.pos = call.pos
    /\ ret = None
    /\ lastOp[call.pos].op = "remove"
    /\ \E c \in RegCoords : is_loaded(chunk_manager, c)

\* C7: with a single observer of radius (rx, ry, rz), all >= 0, one run of
\* chunk_loader queues exactly the coordinates center + (dx, dy, dz),
\* |dx| <= rx, |dy| <= ry, |dz| <= rz, that are not loaded, each once:
\* (2rx+1)(2ry+1)(2rz+1) of them when none is loaded, and the observer's own
\* chunk alone for radius (0, 0, 0).
C7_LoaderBox ==
    [][(/\ LoaderPass
        /\ Len(observers) = 1
        /\ \A a \in 1 .. 3 : observers[1].radius[a] >= 0) =>
          LET r == observers[1].radius
              m == r[1] + r[2] + r[3]
              center == get_chunk_pos(chunk_manager, observers[1].translation)
              box == {IVec3Add(center, <<dx, dy, dz>>) :
                         dx \in {d \in (-m) .. m : Abs(d) <= r[1]},
                         dy \in {d \in (-m) .. m : Abs(d) <= r[2]},
                         dz \in {d \in (-m) .. m : Abs(d) <= r[3]}}
              missing == {c \in box : ~is_loaded(chunk_manager, c)}
          IN  /\ Range(commands') = missing
              /\ Len(commands') = Cardinality(missing)
              /\ missing = box =>
                    Len(commands') = (2 * r[1] + 1) * (2 * r[2] + 1) * (2 * r[3] + 1)
              /\ (r = <<0, 0, 0>> /\ ~is_loaded(chunk_manager, center)) =>
                    commands' = <<center>>]_vars

C7_Witness ==
    /\ pass.ran
    /\ Len(observers) = 1
    /\ observers[1].radius = <<1, 0, 1>>
    /\ Len(commands) = 9

\* C8: when the requests of the latest run of chunk_loader have all been
\* applied and since that run no observer changed and no chunk was
\* despawned, a further run queues nothing and changes neither the registry
\* nor the live chunk entities.
C8_IdempotentPass ==
    [][(LoaderPass /\ Settled) =>
          /\ commands' = <<>>
          /\ chunk_manager' = chunk_manager
          /\ chunk_pos' = chunk_pos]_vars

C8_Witness ==
    /\ pass.after_settled
    /\ ~pass.issued
    /\ Settled
    /\ Len(observers) >= 1
    /\ DOMAIN chunk_manager.chunks # {}

\* a < b and a <= b on f32 values.
F32Lt(a, b) ==
    LET mag(x, y) == \* |x| < |y|, both non-zero
            (x.e + 0 < y.e) \/ (x.e = y.e /\ x.m < y.m)
    IN  IF a.m = 0 THEN b.m # 0 /\ b.s = 1
        ELSE IF b.m = 0 THEN a.s = -1
        ELSE IF a.s # b.s THEN a.s = -1
        ELSE IF a.s = 1 THEN mag(a, b) ELSE mag(b, a)

F32Le(a, b) == a = b \/ F32Lt(a, b)

\* p lies in chunk k on one axis: k * size <= p < (k + 1) * size, the
\* bounds being the origins on_add_chunk_pos gives chunks k and k + 1.
InChunkAxis(p, k, size) ==
    /\ F32Le(F32Mul(AsF32(k), size), p)
    /\ F32Lt(p, F32Mul(AsF32(k + 1), size))

\* C9: get_chunk_pos is the floor of position / chunk_size on each axis:
\* with chunk size 10, (-1,-1,-1) is in chunk (-1,-1,-1), (-10,0,0) in
\* (-1,0,0) and (15,5,23) in (1,0,2); and a position lies in chunk c exactly
\* when c * size <= p < (c + 1) * size on every axis.
C9_FloorSemantics ==
    q.set =>
        /\ (chunk_manager.chunk_size = THREE_DIMETION /\ q.pos = Vec3Of(-1, -1, -1))
              => q.chunk = <<-1, -1, -1>>
        /\ (chunk_manager.chunk_size = THREE_DIMETION /\ q.pos = Vec3Of(-10, 0, 0))
              => q.chunk = <<-1, 0, 0>>
        /\ (chunk_manager.chunk_size = THREE_DIMETION /\ q.pos = Vec3Of(15, 5, 23))
              => q.chunk = <<1, 0, 2>>
        /\ \A a \in 1 .. 3 :
              \A k \in (q.chunk[a] - 2) .. (q.chunk[a] + 2) :
                  InChunkAxis(q.pos[a], k, chunk_manager.chunk_size[a])
                      <=> q.chunk[a] = k

\* C10: for every chunk size with positive components and every chunk
\* coordinate c, get_chunk_pos of the origin on_add_chunk_pos computes for c
\* is c again.
C10_RoundTrip ==
    (q.set /\ t.set /\ q.pos = t.origin) => q.chunk = t.coord

\* C11: no ChunkManager has a chunk-size component <= 0, however it was
\* constructed (ChunkManager::new, Default, ChunkyPlugin::build).
C11_PositiveChunkSize ==
    IsBuilt => \A a \in 1 .. 3 : F32Lt(F32Zero, get_size(chunk_manager)[a])

\* The chunk coordinates of the inclusive axis-aligned box with corners c0, c1.
Min(a, b) == IF a < b THEN a ELSE b
Max(a, b) == IF a < b THEN b ELSE a
Box(c0, c1) ==
    {<<x, y, z>> : x \in Min(c0[1], c1[1]) .. Max(c0[1], c1[1]),
                   y \in Min(c0[2], c1[2]) .. Max(c0[2], c1[2]),
                   z \in Min(c0[3], c1[3]) .. Max(c0[3], c1[3])}

HelperProbes ==
    {Vec3Of(15, 5, 23), Vec3Of(10, 0, 20), Vec3Of(0, 0, 0), Vec3Of(-1, 5, 25),
     Vec3Of(59, 50, 51), <<F1p7, F0p1, AsF32(4)>>}

\* Chunk entity e with ChunkPos c has just been created at a free coordinate.
Created(e, c) ==
    LET size == chunk_manager.chunk_size
    IN  /\ e \in DOMAIN chunk_pos'
        /\ chunk_pos'[e] = c
        /\ translation'[e] = [a \in 1 .. 3 |-> F32Mul(AsF32(c[a]), size[a])]
        /\ size = THREE_DIMETION =>
              translation'[e] = Vec3Of(10 * c[1], 10 * c[2], 10 * c[3])
        /\ \A p \in HelperProbes \cup {translation'[e]} :
              get_chunk_pos(chunk_manager', p) = c =>
                  get_chunk_form_pos(chunk_manager', p) = Some(e)
        /\ (size = THREE_DIMETION /\ c = <<1, 0, 2>>) =>
              /\ translation'[e] = Vec3Of(10, 0, 20)
              /\ get_chunk_form_pos(chunk_manager', Vec3Of(15, 5, 23)) = Some(e)

\* C12: a chunk entity created with ChunkPos c at a coordinate that is not
\* loaded gets the translation c * chunk_size (component-wise), and
\* get_chunk_form_pos(p) returns it for every world position p with
\* get_chunk_pos(p) = c; with size 10, chunk (1,0,2) has origin (10,0,20)
\* and is found from (15,5,23).  Checked for a direct spawn and for every
\* queued spawn command that is the first to reach its coordinate.
C12_OriginAndLookup ==
    [][/\ \A pos \in HelperCorners :
             (SpawnChunk(pos) /\ ~is_loaded(chunk_manager, pos)) =>
                 Created(next_entity, pos)
       /\ (commands' = <<>> /\ ApplyCommands) =>
             \A i \in DOMAIN commands :
                 (/\ ~is_loaded(chunk_manager, commands[i])
                  /\ \A j \in 1 .. (i - 1) : commands[j] # commands[i]) =>
                     Created(next_entity + i - 1, commands[i])]_vars

C12_Witness ==
    /\ chunk_manager.chunk_size = THREE_DIMETION
    /\ \E e \in DOMAIN chunk_pos :
          /\ chunk_pos[e] = <<1, 0, 2>>
          /\ translation[e] = Vec3Of(10, 0, 20)
          /\ get_chunk_form_pos(chunk_manager, Vec3Of(15, 5, 23)) = Some(e)
    /\ call.op = "spawn_chunks_rect"
    /\ commands = <<>>

\* C13: spawn_chunks_rect_from_world_pos queues exactly one spawn for every
\* chunk coordinate of the inclusive box between get_chunk_pos of its first
\* world position and get_chunk_pos of its second.
C13_WorldRectCoversChunks ==
    [][\A w0 \in HelperWorldPositions, w1 \in HelperWorldPositions :
          (/\ call'.op = "spawn_chunks_rect_from_world_pos"
           /\ call'.pos = <<w0, w1>>
           /\ SpawnChunksRectFromWorldPos(w0, w1)) =>
              LET box == Box(get_chunk_pos(chunk_manager, w0),
                             get_chunk_pos(chunk_manager, w1))
              IN  /\ Range(commands') = box
                  /\ Len(commands') = Cardinality(box)]_vars

\* C14: spawn_chunks_rect(p0, p1) queues exactly one spawn for every
\* coordinate of the inclusive box spanned by p0 and p1, that is
\* (|dx|+1)(|dy|+1)(|dz|+1) spawns (216 for (0,0,0) and (5,5,5)), and the
\* same set of coordinates as spawn_chunks_rect(p1, p0).
C14_RectBox ==
    [][\A p0 \in HelperCorners, p1 \in HelperCorners :
          (/\ call'.op = "spawn_chunks_rect"
           /\ call'.pos = <<p0, p1>>
           /\ SpawnChunksRect(p0, p1)) =>
              /\ Range(commands') = Box(p0, p1)
              /\ Len(commands') = (Abs(p0[1] - p1[1]) + 1) * (Abs(p0[2] - p1[2]) + 1)
                                      * (Abs(p0[3] - p1[3]) + 1)
              /\ Range(spawn_chunks_rect(p1, p0)) = Range(commands')
              /\ (p0 = <<0, 0, 0>> /\ p1 = <<5, 5, 5>>) => Len(commands') = 216]_vars

C14_Witness ==
    /\ call.op = "spawn_chunks_rect"
    /\ call.pos = <<<<5, 5, 5>>, <<0, 0, 0>>>>
    /\ Len(commands) = 216
    /\ commands[1] = <<0, 0, 0>>

\* C15: despawning chunk entity e with ChunkPos c frees c when the registry
\* maps c to e, and leaves the registry as it was when c is mapped to
\* another chunk entity (or to none).
C15_UnregistersOnlyItself ==
    [][\A e \in Entities :
          DespawnChunk(e) =>
              IF get_chunk(chunk_manager, chunk_pos[e]) = Some(e)
              THEN ~is_loaded(chunk_manager', chunk_pos[e])
              ELSE chunk_manager' = chunk_manager]_vars

\* The radius box of an observer, in chunk coordinates.
ObserverBox(o) ==
    LET center == get_chunk_pos(chunk_manager, o.translation)
    IN  Box(IVec3Add(center, <<-o.radius[1], -o.radius[2], -o.radius[3]>>),
            IVec3Add(center, o.radius))

Covered(cm) ==
    \A i \in DOMAIN observers :
        (\A a \in 1 .. 3 : observers[i].radius[a] >= 0) =>
            \A c \in ObserverBox(observers[i]) : is_loaded(cm, c)

\* C16: whatever the registry holds and however many observers there are,
\* once the spawn commands queued by one run of chunk_loader have all been
\* applied, every coordinate of every observer's radius box is loaded;
\* and so it is at the sync point that applies them, when no observer
\* changed and no chunk was despawned since the run.
C16_Coverage ==
    [][/\ LoaderPass => Covered(apply_commands(World, commands').cm)
       /\ (pass.ran /\ ~disturbed /\ commands' = <<>> /\ ApplyCommands) =>
             Covered(chunk_manager')]_vars

C16_Witness ==
    /\ Settled
    /\ pass.issued
    /\ Len(observers) = 2
    /\ ObserverBox(observers[1]) # ObserverBox(observers[2])
    /\ Covered(chunk_manager)
    /\ warnings = 0

RECURSIVE SeqSum(_)
SeqSum(ns) == IF ns = <<>> THEN 0 ELSE Head(ns) + SeqSum(Tail(ns))

\* C17: a run of chunk_loader leaves the registry (mapping and chunk size)
\* and the chunk entities as they were, and every is_loaded check of the
\* run is answered by the registry of its start: each observer gets a
\* request for every coordinate of its box that was not loaded then, even
\* one requested earlier in the run.  The mapping changes only in a step
\* that creates or destroys a chunk entity, the chunk size never.
C17_PassReadsOnly ==
    [][/\ LoaderPass =>
             /\ chunk_manager' = chunk_manager
             /\ chunk_pos' = chunk_pos
             /\ \A k \in DOMAIN commands' : ~is_loaded(chunk_manager, commands'[k])
             /\ (\A i \in DOMAIN observers, a \in 1 .. 3 : observers[i].radius[a] >= 0)
                   => Len(commands') =
                        SeqSum([i \in DOMAIN observers |->
                                   Cardinality({c \in ObserverBox(observers[i]) :
                                                   ~is_loaded(chunk_manager, c)})])
       /\ chunk_manager'.chunks # chunk_manager.chunks =>
             DOMAIN chunk_pos' # DOMAIN chunk_pos
       /\ chunk_manager'.chunk_size = chunk_manager.chunk_size]_vars

C17_Witness ==
    /\ pass.ran
    /\ Len(observers) = 2
    /\ ObserverBox(observers[1]) = ObserverBox(observers[2])
    /\ Len(commands) = 18
    /\ DOMAIN chunk_manager.chunks = {}

\* ChunkLoaderSettings.max_loaded: the values considered.
MaxLoaded == 1
MaxLoadedSettings == 0 .. MaxLoaded

C19_NoDanglingOccupant ==
    \A c \in DOMAIN chunk_manager.chunks :
        LET e == chunk_manager.chunks[c]
        IN  e \in DOMAIN chunk_pos /\ chunk_pos[e] = c

C19_Witness ==
    /\ DOMAIN chunk_manager.chunks # {}
    /\ warnings >= 1
    /\ next_entity - 1 > Cardinality(DOMAIN chunk_pos)
    /\ Cardinality(DOMAIN chunk_pos) >= 2

\* Only the entry of coordinate pos may differ between the registry before
\* and after the step.
FrameAt(pos) ==
    /\ chunk_manager'.chunk_size = chunk_manager.chunk_size
    /\ (DOMAIN chunk_manager'.chunks) \ {pos} = (DOMAIN chunk_manager.chunks) \ {pos}
    /\ \A c \in (DOMAIN chunk_manager.chunks) \ {pos} :
          get_chunk(chunk_manager', c) = get_chunk(chunk_manager, c)

\* C20: insert(c, _) and remove(c) change at most the entry of c, neither
\* another entry nor the chunk size; is_loaded, get_chunk,
\* get_chunk_form_pos, get_chunk_pos and get_size change nothing; and
\* get_size returns the chunk size given at construction, at every call.
C20_Frame ==
    [][IsBuilt =>
          /\ \A pos \in ManagerCoords :
                (/\ call'.op \in {"insert", "remove"}
                 /\ (Remove(pos) \/ \E id \in Entities : Insert(pos, id))) =>
                    FrameAt(pos)
          /\ chunk_manager' # chunk_manager =>
                (call'.op \in {"insert", "remove"} /\ FrameAt(call'.pos))
          /\ (/\ call'.op \in {"is_loaded", "get_chunk", "get_chunk_form_pos",
                                "get_size"}
              /\ prev_call' = call) => chunk_manager' = chunk_manager
          /\ q' # q => chunk_manager' = chunk_manager
          /\ get_size(chunk_manager') = built.size
          /\ (call'.op = "get_size" /\ GetSize) => ret' = <<"Vec3", built.size>>]_vars

C20_Witness ==
    /\ IsBuilt
    /\ call.op = "remove"
    /\ ret # None
    /\ prev_call.op = "get_size"
    /\ \E c \in ManagerCoords \ {call.pos} : is_loaded(chunk_manager, c)
    /\ q.set
    /\ get_size(chunk_manager) = built.size

====
